---- MODULE Spec2Model ----
(***************************************************************************)
(* Model of the api-design server: the authentication core                 *)
(* (src/src/modules/auth.ts), the signup/login handlers                    *)
(* (src/src/handlers/user.ts) and the mounting of the protected router     *)
(* (src/src/index.ts, src/src/router.ts).                                  *)
(*                                                                         *)
(* Libraries are modelled by their documented behaviour:                   *)
(*  - bcrypt: an ideal salted one-way hash; compare recomputes with the    *)
(*    salt embedded in the hash.                                           *)
(*  - jsonwebtoken (v9): sign throws without a secret; verify rejects a    *)
(*    string that is not a three-part token, an unsigned token, a bad      *)
(*    signature and a token whose exp is not after the clock.              *)
(*  - prisma: user.username is unique (findUnique is called on it).        *)
(* Time is the jsonwebtoken clock, in seconds.                             *)
(***************************************************************************)
EXTENDS Integers, Sequences, FiniteSets, TLC

\* ---------------------------------------------------------------- bounds
\* concurrent requests the server is handling
MaxReq == 2
\* tokens the clients remember from earlier responses
MaxHeld == 1

\* ------------------------------------------------------ program constants
\* expiresIn: "24h", in seconds
ExpiresIn == 86400
\* bcrypt cost factor
SaltRounds == 10

\* ----------------------------------------------------------- input sets
Usernames == {"alice", "bob"}
Passwords == {"pw1", "pw2"}
Salts == {"saltA", "saltB"}
\* the instants at which the clock is observed
Instants == {0, ExpiresIn - 1, ExpiresIn, ExpiresIn + 1}
\* process.env.JWT_SECRET: a string, or unset
NoSecret == "<unset>"
Secrets == {"S1", NoSecret}
\* a key the server does not use
ForeignKey == "S2"

\* the product ids of requests and rows
ProductIds == {"p1", "p2"}

Reqs == 1 .. MaxReq

\* secret: process.env.JWT_SECRET; now: the clock; users: the user table;
\* products: the ids of the rows of the product table;
\* rq: the requests being handled; held: the tokens clients keep;
\* signedUp: the (username, password) pairs whose signup was answered 201
VARIABLES secret, now, users, products, held, signedUp, rq

vars == <<secret, now, users, products, held, signedUp, rq>>

\* ------------------------------------------------------------- bcrypt
\* A password-shaped value: a plaintext (no salt applied) or the result of
\* hashing one, salts listing the salt of each application in order.
Str(text) == [text |-> text, salts |-> << >>, cost |-> 0]
NoHash == Str("")

\* bcrypt.hash(data, rounds) with the salt the library drew
BcryptHash(data, rounds, salt) ==
    [text |-> data.text, salts |-> Append(data.salts, salt), cost |-> rounds]

\* bcrypt.compare(data, hash): recompute with the salt and cost embedded in
\* the hash; a value that is no hash matches nothing
BcryptCompare(data, hash) ==
    /\ hash.salts # << >>
    /\ hash = BcryptHash(data, hash.cost, hash.salts[Len(hash.salts)])

comparePasswords_AnyPassword(password, hash) == hash.salts # << >>

comparePasswords(password, hash) == BcryptCompare(Str(password), hash)

hashPassword(password, salt) == BcryptHash(Str(password), SaltRounds, salt)

\* ------------------------------------------------------------- tokens
NoUser == [id |-> 0, username |-> "", password |-> NoHash]
NoPayload == [id |-> 0, username |-> "", iat |-> 0, exp |-> 0]
NoToken == [form |-> "none", alg |-> "", payload |-> NoPayload, key |-> ""]

\* jwt.sign(payload, secret, {expiresIn}) at clock t; key stands for the
\* secret the signature was computed with
JwtSign(claims, key, ttl, t) ==
    [form |-> "jwt", alg |-> "HS256",
     payload |-> [id |-> claims.id, username |-> claims.username,
                  iat |-> t, exp |-> t + ttl],
     key |-> key]

\* jwt.sign throws "secretOrPrivateKey must have a value"
JwtSignThrows(key) == key = NoSecret

createJWT_DropsId(user, t) ==
    JwtSign([id |-> 0, username |-> user.username], secret, ExpiresIn, t)

createJWT(user, t) ==
    JwtSign([id |-> user.id, username |-> user.username], secret, ExpiresIn, t)

createJWTThrows == JwtSignThrows(secret)

\* jwt.verify(token, key) at clock t: "ok" or the error it throws
JwtVerifyError_ExpiresLate(token, key, t) ==
    IF token.form # "jwt" THEN "jwt malformed"
    ELSE IF token.alg = "none" THEN
        (IF key = NoSecret THEN "unsigned token needs algorithms: none"
         ELSE "jwt signature is required")
    ELSE IF key = NoSecret THEN "secret or public key must be provided"
    ELSE IF token.alg \notin {"HS256", "HS384", "HS512"} THEN "invalid algorithm"
    ELSE IF token.key # key THEN "invalid signature"
    ELSE IF t > token.payload.exp THEN "jwt expired"
    ELSE "ok"

JwtVerifyError(token, key, t) ==
    IF token.form # "jwt" THEN "jwt malformed"
    ELSE IF token.alg = "none" THEN
        (IF key = NoSecret THEN "unsigned token needs algorithms: none"
         ELSE "jwt signature is required")
    ELSE IF key = NoSecret THEN "secret or public key must be provided"
    ELSE IF token.alg \notin {"HS256", "HS384", "HS512"} THEN "invalid algorithm"
    ELSE IF token.key # key THEN "invalid signature"
    ELSE IF t >= token.payload.exp THEN "jwt expired"
    ELSE "ok"

JwtVerify(token, key, t) ==
    LET e == JwtVerifyError(token, key, t)
    IN [ok |-> e = "ok", err |-> e,
        payload |-> IF e = "ok" THEN token.payload ELSE NoPayload]

\* what a client can put in a header besides a token it was given
Garbage == [form |-> "garbage", alg |-> "", payload |-> NoPayload, key |-> ""]

ForgedClaims == [id |-> 1, username |-> "alice", iat |-> 0, exp |-> 10 * ExpiresIn]

Forged ==
    { [form |-> "jwt", alg |-> "HS256", payload |-> ForgedClaims, key |-> ForeignKey],
      [form |-> "jwt", alg |-> "none", payload |-> ForgedClaims, key |-> ""],
      [form |-> "jwt", alg |-> "RS256", payload |-> ForgedClaims, key |-> ForeignKey],
      Garbage }

\* ------------------------------------------------- Authorization header
\* The header value is a string: a sequence of pieces, each a space, a word
\* or a token.
Sp == [ch |-> "sp", tok |-> NoToken]
Wd(w) == [ch |-> w, tok |-> NoToken]
Tk(t) == [ch |-> "tok", tok |-> t]

NoHeader == [present |-> FALSE, chars |-> << >>]
Hdr(chars) == [present |-> TRUE, chars |-> chars]

HeadersWithout ==
    { NoHeader, Hdr(<< >>), Hdr(<<Wd("Bearer")>>), Hdr(<<Wd("Bearer"), Sp>>) }

HeadersWith(t) ==
    { Hdr(<<Wd("Bearer"), Sp, Tk(t)>>),
      Hdr(<<Wd("Basic"), Sp, Tk(t)>>),
      Hdr(<<Tk(t)>>),
      Hdr(<<Wd("Bearer"), Tk(t)>>),
      Hdr(<<Wd("Bearer"), Sp, Sp, Tk(t)>>),
      Hdr(<<Wd("Bearer"), Sp, Tk(t), Sp, Wd("x")>>) }

Headers(tokens) == HeadersWithout \cup UNION { HeadersWith(t) : t \in tokens }

\* String.prototype.split(" "): the pieces between the spaces
RECURSIVE SplitFrom(_, _, _)
SplitFrom(chars, i, cur) ==
    IF i > Len(chars) THEN <<cur>>
    ELSE IF chars[i].ch = "sp" THEN <<cur>> \o SplitFrom(chars, i + 1, << >>)
    ELSE SplitFrom(chars, i + 1, Append(cur, chars[i]))

Split(chars) == SplitFrom(chars, 1, << >>)

\* the string a segment is, as jwt.verify reads it: a token only when the
\* segment is that token and nothing else
SegmentToken(seg) ==
    IF Len(seg) = 1 /\ seg[1].ch = "tok" THEN seg[1].tok ELSE Garbage

\* ------------------------------------------------------------ responses
NoBody == [kind |-> "none", text |-> "", token |-> NoToken]
Text(t) == [kind |-> "text", text |-> t, token |-> NoToken]
Json(field, t) == [kind |-> field, text |-> t, token |-> NoToken]
JsonToken(t) == [kind |-> "token", text |-> "", token |-> t]

\* ------------------------------------------------------------- requests
\* One request being handled: the handler it is in (kind, pc), req (username,
\* password, header, route, reqUser/hasUser for req.user), the values the
\* handler awaits (hash, user, failed), res (status, body, sends) and what
\* the request has run: the middleware in order (stages), calls of
\* jwt.verify (verifies), of next() by protect (nexts) and of the data store
\* (dbCalls). why records the branch of protect that rejected, or the
\* exception the user table threw at a signup or login; known is the
\* password of the signup of this username that had succeeded when the
\* login arrived ("" if none).
Idle ==
    [kind |-> "idle", pc |-> "idle", username |-> "", password |-> "",
     header |-> NoHeader, route |-> "", hash |-> NoHash, user |-> NoUser,
     failed |-> FALSE, status |-> 200, body |-> NoBody, sends |-> 0,
     reqUser |-> NoPayload, hasUser |-> FALSE, nexts |-> 0, verifies |-> 0,
     why |-> "", stages |-> << >>, dbCalls |-> 0, known |-> ""]

\* res.status(code).json(body) or res.status(code); res.send(body)
Respond(q, code, body) ==
    [q EXCEPT !.pc = "done", !.status = code, !.body = body, !.sends = @ + 1]

\* the error-handling middleware of server.ts and of the router
ErrorHandler(q, type) ==
    IF type = "auth" THEN Respond(q, 401, Json("error", "Unauthorized"))
    ELSE IF type = "input" THEN Respond(q, 400, Json("error", "Invalid input"))
    ELSE Respond(q, 500, Json("error", "Server error"))

\* ---------------------------------------------------------- user store
\* prisma.user.findUnique({ where: { username } })
FindUser(username) ==
    IF \E u \in users : u.username = username
    THEN CHOOSE u \in users : u.username = username
    ELSE NoUser

\* prisma.user.create({ data }): the row it inserts; it throws when the
\* username is taken
InsertedUser(data) ==
    [id |-> Cardinality(users) + 1, username |-> data.username,
     password |-> data.password]

CreateUserThrows(data) == \E u \in users : u.username = data.username

\* ------------------------------------------------------- createNewUser
\* the data createNewUser hands to prisma.user.create
createNewUserData_Plaintext(q) == [username |-> q.username, password |-> Str(q.password)]

createNewUserData(q) == [username |-> q.username, password |-> q.hash]

\* after the create: token and 201, or the catch block marks the error
\* "input" and passes it to the error handler
createNewUserAfterCreate_IgnoresError(q) ==
    IF createJWTThrows
    THEN ErrorHandler(q, "input")
    ELSE Respond(q, 201, JsonToken(createJWT(q.user, now)))

createNewUserAfterCreate_Untyped(q) ==
    IF q.failed \/ createJWTThrows
    THEN ErrorHandler(q, "")
    ELSE Respond(q, 201, JsonToken(createJWT(q.user, now)))

createNewUserAfterCreate(q) ==
    IF q.failed \/ createJWTThrows
    THEN ErrorHandler(q, "input")
    ELSE Respond(q, 201, JsonToken(createJWT(q.user, now)))

\* -------------------------------------------------------------- signIn
\* after findUnique: compare the password, or answer 401
signInAfterFind_RevealsUnknown(q, user) ==
    IF user # NoUser
    THEN [q EXCEPT !.user = user, !.pc = "compare"]
    ELSE Respond(q, 404, Json("message", "User not found"))

signInAfterFind(q, user) ==
    IF user # NoUser
    THEN [q EXCEPT !.user = user, !.pc = "compare"]
    ELSE Respond(q, 401, Json("message", "Invalid credentials"))

\* after comparePasswords: res.json keeps the status the response has;
\* createJWT throwing is not caught and the request gets no response
signInAfterCompare(q, isValid) ==
    IF isValid
    THEN IF createJWTThrows
         THEN [q EXCEPT !.pc = "unhandled", !.failed = TRUE]
         ELSE Respond(q, q.status, JsonToken(createJWT(q.user, now)))
    ELSE Respond(q, 401, Json("message", "Invalid credentials"))

\* ------------------------------------------------------------- protect
\* !bearer: the header is undefined or the empty string
NoBearer(header) == ~header.present \/ header.chars = << >>

\* const [, token] = bearer.split(" "); !token: there is no second piece, or
\* it is the empty string
NoTokenIn_EmptyIsToken(header) == Len(Split(header.chars)) < 2

NoTokenIn(header) ==
    LET segs == Split(header.chars)
    IN  Len(segs) < 2 \/ segs[2] = << >>

\* the three 401 blocks of protect
RejectNoHeader(q) ==
    [Respond(q, 401, Text("Not authorized")) EXCEPT !.why = "no header"]

RejectNoToken(q) ==
    [Respond(q, 401, Text("Not authorized")) EXCEPT !.why = "no token"]

RejectVerify_RevealsReason(q, err) ==
    [Respond(q, 401, Text(err)) EXCEPT !.why = err]

RejectVerify_CallsNext(q, err) ==
    [Respond(q, 401, Text("Not authorized")) EXCEPT !.why = err, !.nexts = @ + 1]

RejectVerify(q, err) ==
    [Respond(q, 401, Text("Not authorized")) EXCEPT !.why = err]

\* the whole middleware, on a request with this Authorization header
protect_OneAtATime(q, header) ==
    LET q0 == [q EXCEPT !.stages = Append(@, "protect")]
        token == SegmentToken(Split(header.chars)[2])
        v == JwtVerify(token, secret, now)
        q1 == [q0 EXCEPT !.verifies = @ + 1]
    IN  IF NoBearer(header) THEN RejectNoHeader(q0)
        ELSE IF NoTokenIn(header) THEN RejectNoToken(q0)
        ELSE IF v.ok /\ \A r \in Reqs : rq[r].reqUser # v.payload
        THEN [q1 EXCEPT !.reqUser = v.payload, !.hasUser = TRUE,
                        !.nexts = @ + 1, !.pc = "router"]
        ELSE RejectVerify(q1, IF v.ok THEN "invalid signature" ELSE v.err)

protect_AdmitThenReject(q, header) ==
    LET q0 == [q EXCEPT !.stages = Append(@, "protect")]
        token == SegmentToken(Split(header.chars)[2])
        v == JwtVerify(token, secret, now)
        q1 == [q0 EXCEPT !.verifies = @ + 1]
    IN  IF NoBearer(header) THEN RejectNoHeader(q0)
        ELSE IF NoTokenIn(header) THEN RejectNoToken(q0)
        ELSE IF v.ok
        THEN RejectVerify([q1 EXCEPT !.reqUser = v.payload, !.hasUser = TRUE,
                                     !.nexts = @ + 1], "next")
        ELSE RejectVerify(q1, v.err)

protect(q, header) ==
    LET q0 == [q EXCEPT !.stages = Append(@, "protect")]
        token == SegmentToken(Split(header.chars)[2])
        v == JwtVerify(token, secret, now)
        q1 == [q0 EXCEPT !.verifies = @ + 1]
    IN  IF NoBearer(header) THEN RejectNoHeader(q0)
        ELSE IF NoTokenIn(header) THEN RejectNoToken(q0)
        ELSE IF v.ok
        THEN [q1 EXCEPT !.reqUser = v.payload, !.hasUser = TRUE,
                        !.nexts = @ + 1, !.pc = "router"]
        ELSE RejectVerify(q1, v.err)

\* app.use("/api", protect, router): the middleware of the mount, in order
ApiStack_RouterFirst == <<"router", "protect">>

ApiStack == <<"protect", "router">>

\* a request under /api enters the first middleware of the mount
EnterApi(q, header) ==
    LET q0 == [q EXCEPT !.kind = "api", !.header = header]
    IN  IF ApiStack[1] = "protect" THEN protect(q0, header)
        ELSE [q0 EXCEPT !.pc = "router"]

\* -------------------------------------------------------------- router
ProductRoutes ==
    { "GET /product", "GET /product/:id", "POST /product", "PUT /product/:id",
      "DELETE /product/:id" }
ProviderRoutes ==
    { "GET /provider", "GET /provider/:id", "POST /provider", "PUT /provider/:id",
      "DELETE /provider/:id" }
RouterRoutes == ProductRoutes \cup ProviderRoutes
\* a path under /api that the router does not define
Unrouted == "GET /other"
Routes == RouterRoutes \cup {Unrouted}

\* the routes with body(...) validators and handleInputErrors
Validated ==
    { "POST /product", "PUT /product/:id", "POST /provider", "PUT /provider/:id" }

HandlerOf(route) ==
    CASE route = "GET /product" -> "getAllProducts"
      [] route = "GET /product/:id" -> "getProduct"
      [] route = "POST /product" -> "createProduct"
      [] route = "PUT /product/:id" -> "updateProduct"
      [] route = "DELETE /product/:id" -> "deleteProduct"
      [] route = "GET /provider" -> "getAllProviders"
      [] route = "GET /provider/:id" -> "getProviderById"
      [] route = "POST /provider" -> "createProvider"
      [] route = "PUT /provider/:id" -> "updateProvider"
      [] route = "DELETE /provider/:id" -> "deleteProvider"

Handlers == { HandlerOf(route) : route \in RouterRoutes }

\* what the product/provider tables answer a handler: the row(s), no row, or
\* an exception of the client
StoreAnswers == {"row", "none", "throws"}

\* handleInputErrors
handleInputErrors(q, valid) ==
    LET q0 == [q EXCEPT !.stages = Append(@, "handleInputErrors")]
    IN  IF ~valid THEN Respond(q0, 400, Json("errors", "validation"))
        ELSE [q0 EXCEPT !.pc = "handler"]

\* the router on the request: no route (the request falls through to
\* Express's 404), or the route's validators, then its handler
RouterMatch(q, route, valid) ==
    LET q0 == [q EXCEPT !.route = route]
    IN  IF route \notin RouterRoutes THEN Respond(q0, 404, Text("Cannot " \o route))
        ELSE IF route \in Validated THEN handleInputErrors(q0, valid)
        ELSE [q0 EXCEPT !.pc = "handler"]

\* a handler of handlers/product.ts or handlers/providers.ts, given the
\* answer of the table it asks; an exception goes to the error handler
RunHandler(q, ans) ==
    LET h == HandlerOf(q.route)
        q0 == [q EXCEPT !.stages = Append(@, h), !.dbCalls = @ + 1]
        q2 == [q0 EXCEPT !.dbCalls = @ + 1]
        err == ErrorHandler(q0, "")
    IN  CASE h \in {"getAllProducts", "getAllProviders"} ->
               IF ans = "throws" THEN err ELSE Respond(q0, 201, Json("data", "list"))
          [] h = "getProduct" ->
               IF ans = "throws" THEN err
               ELSE IF ans = "none" THEN Respond(q0, 404, Json("error", "Product not found"))
               ELSE Respond(q0, 201, Json("data", "product"))
          [] h = "createProduct" ->
               IF ans = "throws" THEN err
               ELSE IF ans = "none" THEN Respond(q0, 404, Json("error", "Provider not found"))
               ELSE Respond(q2, 201, Json("data", "product"))
          [] h \in {"updateProduct", "deleteProduct"} ->
               \* update/delete of a missing row throws in the client
               IF ans = "none" THEN [err EXCEPT !.why = "record not found"]
               ELSE IF ans = "throws" THEN err
               ELSE Respond(q0, 201, Json("data", "product"))
          [] h = "getProviderById" ->
               IF ans = "throws" THEN err
               ELSE IF ans = "none" THEN Respond(q0, 404, Json("message", "Provider not found"))
               ELSE Respond(q0, 200, Json("data", "provider"))
          [] h = "createProvider" ->
               IF ans = "throws" THEN err ELSE Respond(q0, 201, Json("data", "provider"))
          [] h = "updateProvider" ->
               IF ans # "row" THEN err ELSE Respond(q0, 200, Json("data", "provider"))
          [] h = "deleteProvider" ->
               IF ans # "row" THEN err
               ELSE Respond(q0, 200, Json("message", "Provider deleted successfully"))

\* ------------------------------------------------------------- actions
Init ==
    /\ secret \in Secrets
    /\ now = 0
    /\ users = {}
    /\ products = {}
    /\ held = {}
    /\ signedUp = {}
    /\ rq = [r \in Reqs |-> Idle]

\* the clock moves on
Tick(t) ==
    /\ t > now
    /\ now' = t
    /\ UNCHANGED <<secret, users, products, held, signedUp, rq>>

\* POST /signup arrives: createNewUser starts hashing the password
SignupArrives(r, u, p) ==
    /\ rq[r].kind = "idle"
    /\ rq' = [rq EXCEPT ![r] = [Idle EXCEPT !.kind = "signup", !.pc = "hash",
                                           !.username = u, !.password = p,
                                           !.stages = <<"createNewUser">>]]
    /\ UNCHANGED <<secret, now, users, products, held, signedUp>>

\* hashPassword resolves; createNewUser calls prisma.user.create
SignupHashed(r, salt) ==
    /\ rq[r].kind = "signup" /\ rq[r].pc = "hash"
    /\ LET q == rq[r]
       IN  rq' = [rq EXCEPT ![r] = [q EXCEPT !.hash = hashPassword(q.password, salt),
                                            !.pc = "create"]]
    /\ UNCHANGED <<secret, now, users, products, held, signedUp>>

\* the store runs the create: it inserts the row, or throws (username
\* taken, or the store is unreachable: up = FALSE)
SignupCreate(r, up) ==
    /\ rq[r].kind = "signup" /\ rq[r].pc = "create"
    /\ LET q == [rq[r] EXCEPT !.dbCalls = @ + 1, !.pc = "created"]
           data == createNewUserData(q)
           row == InsertedUser(data)
       IN  IF up /\ ~CreateUserThrows(data)
           THEN /\ users' = users \cup {row}
                /\ rq' = [rq EXCEPT ![r] = [q EXCEPT !.user = row]]
           ELSE /\ users' = users
                /\ rq' = [rq EXCEPT ![r] =
                             [q EXCEPT !.failed = TRUE,
                                       !.why = IF up THEN "unique constraint"
                                               ELSE "store unreachable"]]
    /\ UNCHANGED <<secret, now, products, held, signedUp>>

\* createNewUser resumes after the create and answers
SignupRespond(r) ==
    /\ rq[r].kind = "signup" /\ rq[r].pc = "created"
    /\ LET q == createNewUserAfterCreate(rq[r])
       IN  /\ rq' = [rq EXCEPT ![r] = q]
           /\ signedUp' = IF q.status = 201
                          THEN signedUp \cup {<<q.username, q.password>>}
                          ELSE signedUp
    /\ UNCHANGED <<secret, now, users, products, held>>

\* the password of the signup of username u that has been answered 201
SignedUpPassword(u) ==
    IF \E s \in signedUp : s[1] = u
    THEN (CHOOSE s \in signedUp : s[1] = u)[2]
    ELSE ""

\* POST /login arrives: signIn calls prisma.user.findUnique
LoginArrives(r, u, p) ==
    /\ rq[r].kind = "idle"
    /\ rq' = [rq EXCEPT ![r] = [Idle EXCEPT !.kind = "login", !.pc = "find",
                                           !.username = u, !.password = p,
                                           !.stages = <<"signIn">>,
                                           !.known = SignedUpPassword(u)]]
    /\ UNCHANGED <<secret, now, users, products, held, signedUp>>

\* the store answers findUnique and signIn resumes up to its next await; an
\* exception of the store (up = FALSE) is not caught: no response
LoginFind(r, up) ==
    /\ rq[r].kind = "login" /\ rq[r].pc = "find"
    /\ LET q == [rq[r] EXCEPT !.dbCalls = @ + 1]
       IN  rq' = [rq EXCEPT ![r] =
                    IF ~up THEN [q EXCEPT !.pc = "unhandled", !.failed = TRUE,
                                          !.why = "store unreachable"]
                    ELSE signInAfterFind(q, FindUser(q.username))]
    /\ UNCHANGED <<secret, now, users, products, held, signedUp>>

\* comparePasswords resolves and signIn answers
LoginCompare(r) ==
    /\ rq[r].kind = "login" /\ rq[r].pc = "compare"
    /\ LET q == rq[r]
       IN  rq' = [rq EXCEPT ![r] =
                    signInAfterCompare(q, comparePasswords(q.password, q.user.password))]
    /\ UNCHANGED <<secret, now, users, products, held, signedUp>>

\* a request under /api arrives and runs the mount up to the router
ApiArrives(r, header) ==
    /\ rq[r].kind = "idle"
    /\ rq' = [rq EXCEPT ![r] = EnterApi(Idle, header)]
    /\ UNCHANGED <<secret, now, users, products, held, signedUp>>

\* the router matches the route and runs its validators
Dispatch(r, route, valid) ==
    /\ rq[r].kind = "api" /\ rq[r].pc = "router"
    /\ rq' = [rq EXCEPT ![r] = RouterMatch(rq[r], route, valid)]
    /\ UNCHANGED <<secret, now, users, products, held, signedUp>>

\* the handlers that look a product up by req.params.id
ByProductId == {"getProduct", "updateProduct", "deleteProduct"}

\* the product table can give handler h, asking for id, the answer ans: a
\* row when the id is stored, none when it is not; a created row gets a
\* fresh id
ProductAnswers(h, id, ans) ==
    /\ (h \in ByProductId /\ ans = "row") => id \in products
    /\ (h \in ByProductId /\ ans = "none") => id \notin products
    /\ (h = "createProduct" /\ ans = "row") => id \notin products

\* the product table after handler h got the answer ans
ProductsAfter(h, id, ans) ==
    IF h = "createProduct" /\ ans = "row" THEN products \cup {id}
    ELSE IF h = "deleteProduct" /\ ans = "row" THEN products \ {id}
    ELSE products

\* the route's handler runs, for product id
Handle(r, id, ans) ==
    /\ rq[r].kind = "api" /\ rq[r].pc = "handler"
    /\ ProductAnswers(HandlerOf(rq[r].route), id, ans)
    /\ products' = ProductsAfter(HandlerOf(rq[r].route), id, ans)
    /\ rq' = [rq EXCEPT ![r] = RunHandler(rq[r], ans)]
    /\ UNCHANGED <<secret, now, users, held, signedUp>>

\* the exchange is over (answered, or abandoned by the client): the client
\* may keep the token it was sent
Release(r, keep) ==
    /\ rq[r].pc \in {"done", "unhandled"}
    /\ keep \subseteq held \cup (IF rq[r].body.kind = "token" THEN {rq[r].body.token} ELSE {})
    /\ Cardinality(keep) <= MaxHeld
    /\ held' = keep
    /\ rq' = [rq EXCEPT ![r] = Idle]
    /\ UNCHANGED <<secret, now, users, products, signedUp>>

\* the tokens a client can present
Presentable == held \cup Forged

\* the headers of the plain cases: none, or Bearer and a token
PlainHeaders(tokens) ==
    {NoHeader} \cup { Hdr(<<Wd("Bearer"), Sp, Tk(t)>>) : t \in tokens }

Kept(r) == SUBSET (held \cup {rq[r].body.token})

\* The server: every signup and login input, the store failing or not, and
\* guarded requests with plain headers to one route.
Next ==
    \/ \E r \in Reqs, u \in Usernames, p \in Passwords : SignupArrives(r, u, p)
    \/ \E r \in Reqs, salt \in Salts : SignupHashed(r, salt)
    \/ \E r \in Reqs, up \in BOOLEAN : SignupCreate(r, up)
    \/ \E r \in Reqs : SignupRespond(r)
    \/ \E r \in Reqs, u \in Usernames, p \in Passwords : LoginArrives(r, u, p)
    \/ \E r \in Reqs, up \in BOOLEAN : LoginFind(r, up)
    \/ \E r \in Reqs : LoginCompare(r)
    \/ \E r \in Reqs : \E header \in PlainHeaders(held \cup {Garbage}) : ApiArrives(r, header)
    \/ \E r \in Reqs : Dispatch(r, "GET /product", TRUE)
    \/ \E r \in Reqs : Handle(r, "p1", "row")
    \/ \E r \in Reqs : \E keep \in Kept(r) : Release(r, keep)

Spec == Init /\ [][Next]_vars

\* The Access Guard: requests with every header shape and every presentable
\* token at every instant; tokens come from signups.
NextGuard ==
    \/ \E t \in Instants : Tick(t)
    \/ \E r \in Reqs, u \in Usernames : SignupArrives(r, u, "pw1")
    \/ \E r \in Reqs : SignupHashed(r, "saltA")
    \/ \E r \in Reqs : SignupCreate(r, TRUE)
    \/ \E r \in Reqs : SignupRespond(r)
    \/ \E r \in Reqs : \E header \in Headers(Presentable) : ApiArrives(r, header)
    \/ \E r \in Reqs : Dispatch(r, "GET /product", TRUE)
    \/ \E r \in Reqs : Handle(r, "p1", "row")
    \/ \E r \in Reqs : \E keep \in Kept(r) : Release(r, keep)

SpecGuard == Init /\ [][NextGuard]_vars

\* the plain headers, and "Bearer" without a token
RouterHeaders == PlainHeaders(held \cup {Garbage}) \cup {Hdr(<<Wd("Bearer")>>)}

\* The protected router: every route, valid and invalid bodies, every answer
\* of the store, behind the guard; tokens come from signups.
NextRouter ==
    \/ \E r \in Reqs : SignupArrives(r, "alice", "pw1")
    \/ \E r \in Reqs : SignupHashed(r, "saltA")
    \/ \E r \in Reqs : SignupCreate(r, TRUE)
    \/ \E r \in Reqs : SignupRespond(r)
    \/ \E r \in Reqs : \E header \in RouterHeaders : ApiArrives(r, header)
    \/ \E r \in Reqs, route \in Routes, valid \in BOOLEAN : Dispatch(r, route, valid)
    \/ \E r \in Reqs, id \in ProductIds, ans \in StoreAnswers : Handle(r, id, ans)
    \/ \E r \in Reqs : \E keep \in Kept(r) : Release(r, keep)

SpecRouter == Init /\ [][NextRouter]_vars

\* =====================================================================
\* Properties
\* =====================================================================
\* a request the guard answered itself, without calling next()
GuardRejected(q) == q.kind = "api" /\ q.pc = "done" /\ q.nexts = 0
\* a request the guard passed on
GuardAdmitted(q) == q.kind = "api" /\ q.nexts > 0
\* the header is exactly: Bearer, one space, a token
IsBearerToken(h) ==
    /\ h.present
    /\ Len(h.chars) = 3
    /\ h.chars[1] = Wd("Bearer") /\ h.chars[2] = Sp /\ h.chars[3].ch = "tok"
\* the request r that arrives under /api in this step
Arriving(r) == rq[r].kind = "idle" /\ rq'[r].kind = "api"
\* the errors jwt.verify throws
VerifyErrors ==
    { "jwt malformed", "jwt signature is required", "invalid algorithm",
      "unsigned token needs algorithms: none",
      "secret or public key must be provided", "invalid signature", "jwt expired" }

\* C1: any two requests the guard rejects, whatever the reasons, were sent
\* the same status and body: 401 and "Not authorized".
C1_RejectionsAreIdentical ==
    \A r1, r2 \in Reqs :
        (GuardRejected(rq[r1]) /\ GuardRejected(rq[r2])) =>
            /\ rq[r1].status = rq[r2].status
            /\ rq[r1].body = rq[r2].body
            /\ rq[r1].status = 401
            /\ rq[r1].body = Text("Not authorized")

\* two requests rejected for different reasons, one of them an expired token
C1_Witness ==
    \E r1, r2 \in Reqs :
        /\ GuardRejected(rq[r1]) /\ GuardRejected(rq[r2])
        /\ rq[r1].why = "jwt expired"
        /\ rq[r2].why \in {"no header", "no token", "invalid signature", "jwt malformed"}

\* C2: a request with header "Bearer <token>" is admitted exactly when the
\* token was signed with the process's secret and the clock is before its
\* issue time + 24h.
C2_AdmitIffSignedAndUnexpired ==
    [][ \A r \in Reqs :
          (Arriving(r) /\ IsBearerToken(rq'[r].header)) =>
              LET t == rq'[r].header.chars[3].tok
              IN  GuardAdmitted(rq'[r]) <=>
                     /\ t.form = "jwt" /\ t.alg = "HS256"
                     /\ secret # NoSecret /\ t.key = secret
                     /\ now < t.payload.iat + ExpiresIn ]_vars

\* a correctly signed token rejected after its expiry, beside a token with a
\* foreign signature rejected
C2_Witness ==
    \E r1, r2 \in Reqs :
        /\ GuardRejected(rq[r1]) /\ IsBearerToken(rq[r1].header)
        /\ rq[r1].header.chars[3].tok.key = secret
        /\ now > rq[r1].header.chars[3].tok.payload.exp
        /\ GuardRejected(rq[r2]) /\ IsBearerToken(rq[r2].header)
        /\ rq[r2].header.chars[3].tok.key = ForeignKey

\* C3: a request is admitted only if its header is exactly "Bearer <token>".
C3_AdmitsOnlyBearer ==
    \A r \in Reqs : GuardAdmitted(rq[r]) => IsBearerToken(rq[r].header)

\* the header has no second space-separated segment, or an empty one
NoTokenSegment(h) ==
    \/ ~h.present
    \/ \A i \in 1 .. Len(h.chars) : h.chars[i].ch # "sp"
    \/ LET i == CHOOSE j \in 1 .. Len(h.chars) :
                   /\ h.chars[j].ch = "sp"
                   /\ \A k \in 1 .. j - 1 : h.chars[k].ch # "sp"
       IN  i = Len(h.chars) \/ h.chars[i + 1].ch = "sp"

\* C4: a request without header, or without a non-empty second segment, is
\* answered 401 "Not authorized" at once: jwt.verify is not called, req.user
\* is not set, next() is not called.
C4_NoTokenRejectedAtOnce ==
    \A r \in Reqs :
        (rq[r].kind = "api" /\ NoTokenSegment(rq[r].header)) =>
            /\ rq[r].pc = "done" /\ rq[r].sends = 1
            /\ rq[r].status = 401 /\ rq[r].body = Text("Not authorized")
            /\ rq[r].verifies = 0 /\ ~rq[r].hasUser /\ rq[r].reqUser = NoPayload
            /\ rq[r].nexts = 0 /\ rq[r].stages = <<"protect">>

\* "Bearer" alone rejected beside a request without header
C4_Witness ==
    \E r1, r2 \in Reqs :
        /\ rq[r1].kind = "api" /\ rq[r1].header = Hdr(<<Wd("Bearer")>>)
        /\ rq[r2].kind = "api" /\ rq[r2].header = NoHeader
        /\ rq[r1].pc = "done" /\ rq[r2].pc = "done"

\* C5: when jwt.verify throws, protect answers 401 "Not authorized" itself:
\* the request ends in protect, next() is not called, req.user is not set.
C5_VerifyFailureIsRejection ==
    \A r \in Reqs :
        (rq[r].kind = "api" /\ rq[r].why \in VerifyErrors) =>
            /\ rq[r].pc = "done" /\ rq[r].sends = 1
            /\ rq[r].status = 401 /\ rq[r].body = Text("Not authorized")
            /\ rq[r].verifies = 1
            /\ rq[r].nexts = 0 /\ ~rq[r].hasUser /\ rq[r].reqUser = NoPayload
            /\ rq[r].stages = <<"protect">>

\* a malformed token and a wrong algorithm, both rejected
C5_Witness ==
    \E r1, r2 \in Reqs :
        /\ rq[r1].kind = "api" /\ rq[r1].why = "jwt malformed"
        /\ rq[r2].kind = "api" /\ rq[r2].why = "invalid algorithm"

\* C6: a request admitted with a token createJWT made for a user carries
\* that user's id and username in req.user, next() was called once, and
\* the guard wrote no response.
C6_RoundTripIdentity ==
    \A r \in Reqs :
        (GuardAdmitted(rq[r]) /\ IsBearerToken(rq[r].header)) =>
            LET t == rq[r].header.chars[3].tok
            IN  /\ \E u \in users :
                      /\ t = createJWT(u, t.payload.iat)
                      /\ rq[r].reqUser.id = u.id
                      /\ rq[r].reqUser.username = u.username
                /\ rq[r].hasUser /\ rq[r].nexts = 1
                /\ rq[r].pc = "router" =>
                      rq[r].sends = 0 /\ rq[r].status = 200 /\ rq[r].body = NoBody

\* bob's token admitted while alice is a user too
C6_Witness ==
    \E r \in Reqs :
        /\ GuardAdmitted(rq[r]) /\ IsBearerToken(rq[r].header)
        /\ rq[r].pc = "router"
        /\ rq[r].reqUser.username = "bob"
        /\ \E u \in users : u.username = "alice"

\* the stages of a request that are route handlers or their validation
ProtectedStages == Handlers \cup {"handleInputErrors"}

\* C7: under /api a handler or its validation runs only after protect ran
\* first and admitted the request; a rejected request ran protect alone,
\* matched no route and made no call of the data store.
C7_HandlersOnlyBehindGuard ==
    \A r \in Reqs :
        rq[r].kind = "api" =>
            /\ (\E i \in 1 .. Len(rq[r].stages) : rq[r].stages[i] \in ProtectedStages) =>
                  /\ rq[r].stages[1] = "protect"
                  /\ rq[r].hasUser /\ rq[r].nexts = 1
            /\ rq[r].dbCalls > 0 => (rq[r].hasUser /\ rq[r].nexts = 1)
            /\ GuardRejected(rq[r]) =>
                  /\ rq[r].stages = <<"protect">>
                  /\ rq[r].route = "" /\ rq[r].dbCalls = 0

\* a validated handler has run behind the guard, beside a rejected request
C7_Witness ==
    \E r1, r2 \in Reqs :
        /\ rq[r1].stages = <<"protect", "handleInputErrors", "createProduct">>
        /\ rq[r1].dbCalls = 2
        /\ GuardRejected(rq[r2])

\* a login that failed: no such username, or the password does not match
LoginUnknown(q) == q.kind = "login" /\ q.pc = "done" /\ q.user = NoUser
LoginWrongPassword(q) ==
    /\ q.kind = "login" /\ q.pc = "done" /\ q.user # NoUser
    /\ q.user.password.text # q.password

\* C8: a login for an unknown username and a login with a wrong password
\* are answered alike: 401, {message: "Invalid credentials"}, no token.
C8_LoginFailuresAlike ==
    \A r1, r2 \in Reqs :
        ( /\ LoginUnknown(rq[r1]) \/ LoginWrongPassword(rq[r1])
          /\ LoginUnknown(rq[r2]) \/ LoginWrongPassword(rq[r2]) ) =>
            /\ rq[r1].status = rq[r2].status
            /\ rq[r1].body = rq[r2].body
            /\ rq[r1].status = 401
            /\ rq[r1].body = Json("message", "Invalid credentials")

\* both kinds of failure at once
C8_Witness ==
    \E r1, r2 \in Reqs : LoginUnknown(rq[r1]) /\ LoginWrongPassword(rq[r2])

\* the guard admits token t at every instant from its issue to its expiry
AdmittedWhileFresh(t) ==
    \A i \in Instants :
        (t.payload.iat <= i /\ i < t.payload.iat + ExpiresIn) =>
            JwtVerifyError(t, secret, i) = "ok"

\* C9: a login that arrives after signUp(u, p) was answered 201 is, when
\* answered, answered 200 with a token the guard admits if it is logIn(u, p)
\* and 401 "Invalid credentials" if it is logIn(u, p') with p' # p; and any
\* login answered with a token names a stored user whose hash the password
\* verifies against.
C9_LoginAfterSignup ==
    \A r \in Reqs :
        (rq[r].kind = "login" /\ rq[r].pc = "done") =>
            /\ (rq[r].known # "" /\ rq[r].known = rq[r].password) =>
                  /\ rq[r].status = 200 /\ rq[r].body.kind = "token"
                  /\ rq[r].body.token.payload.username = rq[r].username
                  /\ AdmittedWhileFresh(rq[r].body.token)
            /\ (rq[r].known # "" /\ rq[r].known # rq[r].password) =>
                  /\ rq[r].status = 401
                  /\ rq[r].body = Json("message", "Invalid credentials")
            /\ rq[r].body.kind = "token" =>
                  \E u \in users :
                      /\ u.username = rq[r].username
                      /\ BcryptCompare(Str(rq[r].password), u.password)

\* after a signup, a login with the password answered 200 beside one with
\* another password answered 401
C9_Witness ==
    \E r1, r2 \in Reqs :
        /\ rq[r1].kind = "login" /\ rq[r1].pc = "done"
        /\ rq[r1].known # "" /\ rq[r1].known = rq[r1].password
        /\ rq[r1].status = 200
        /\ rq[r2].kind = "login" /\ rq[r2].pc = "done"
        /\ rq[r2].known # "" /\ rq[r2].known # rq[r2].password
        /\ rq[r2].status = 401

\* C10: every stored password is the hash of a submitted plaintext, hashed
\* once with the cost factor, and is not the plaintext; the row a signup
\* created holds hashPassword of the password that signup submitted.
C10_StoredPasswordIsOneHash ==
    /\ \A u \in users :
          /\ Len(u.password.salts) = 1 /\ u.password.salts[1] \in Salts
          /\ u.password.cost = SaltRounds
          /\ u.password.text \in Passwords
          /\ u.password # Str(u.password.text)
    /\ \A r \in Reqs :
          (rq[r].kind = "signup" /\ rq[r].user # NoUser) =>
              /\ rq[r].user \in users
              /\ \E salt \in Salts :
                    rq[r].user.password = BcryptHash(Str(rq[r].password), SaltRounds, salt)

\* two users signed up with the same password: their hashes differ
C10_Witness ==
    \E u1, u2 \in users :
        /\ u1.password.text = u2.password.text
        /\ u1.password.salts # u2.password.salts

\* a signup that was answered, and not with 201 and a token
SignupFailed(q) ==
    /\ q.kind = "signup" /\ q.pc = "done"
    /\ ~(q.status = 201 /\ q.body.kind = "token")

\* C11: a signup that is not answered 201 with a token has created no user:
\* the request inserted no row, whatever step failed.
C11_FailedSignupCreatesNoUser ==
    \A r \in Reqs : SignupFailed(rq[r]) => rq[r].user = NoUser

\* a signup or login whose call of the user table threw because the store
\* could not be reached, and that has run to its end
StoreFailed(q) ==
    /\ q.kind \in {"signup", "login"}
    /\ q.why = "store unreachable"
    /\ q.pc \in {"done", "unhandled"}

\* C12: a signup or login whose store call failed for a reason other than
\* its input is answered, and answered 500 with {error: "Server error"}.
C12_StoreFailureIsServerError ==
    \A r \in Reqs :
        StoreFailed(rq[r]) =>
            /\ rq[r].pc = "done" /\ rq[r].sends = 1
            /\ rq[r].status = 500
            /\ rq[r].body = Json("error", "Server error")

\* a signup whose create was refused because the username is taken
SignupDuplicate(q) == q.kind = "signup" /\ q.why = "unique constraint"

\* C13: a signup with a username that exists inserts nothing and leaves the
\* row of that username as it was, and it is answered 400 with
\* {error: "Invalid input"} and no token.
C13_DuplicateSignupIsInputError ==
    [][ \A r \in Reqs :
          SignupDuplicate(rq'[r]) =>
              /\ rq'[r].user = NoUser
              /\ \E u \in users :
                    /\ u.username = rq'[r].username
                    /\ \A v \in users' : v.username = u.username <=> v = u
              /\ rq'[r].pc = "done" =>
                    /\ rq'[r].sends = 1 /\ rq'[r].status = 400
                    /\ rq'[r].body = Json("error", "Invalid input")
                    /\ rq'[r].body.token = NoToken ]_vars

\* a second signup of a stored username, with another password, answered
C13_Witness ==
    \E r \in Reqs :
        /\ SignupDuplicate(rq[r]) /\ rq[r].pc = "done"
        /\ \E u \in users :
              u.username = rq[r].username /\ u.password.text # rq[r].password

\* the answers of an ordinary request: 400 "Invalid input", 401 "Not
\* authorized", or a token
OrdinaryOutcome(q) ==
    /\ q.pc = "done"
    /\ \/ q.status = 400 /\ q.body = Json("error", "Invalid input")
       \/ q.status = 401 /\ q.body = Text("Not authorized")
       \/ q.body.kind = "token"

\* C14: while the signing secret is unset no signup, login or guarded
\* request is answered with an ordinary outcome, and no token is issued.
C14_UnsetSecretIsNotPerRequest ==
    secret = NoSecret =>
        /\ \A r \in Reqs : ~OrdinaryOutcome(rq[r])
        /\ held = {}

\* request r is in updateProduct or deleteProduct, and this step runs the
\* handler for an id that matches no product
MissingProductStep(r) ==
    /\ rq[r].kind = "api" /\ rq[r].pc = "handler"
    /\ HandlerOf(rq[r].route) \in {"updateProduct", "deleteProduct"}
    /\ rq'[r].why = "record not found"

\* C15: updateProduct and deleteProduct for an id that matches no product
\* answer 404 with {error: "Product not found"} and leave the product table
\* as it was.
C15_MissingProductIs404 ==
    [][ \A r \in Reqs :
          MissingProductStep(r) =>
              /\ rq'[r].pc = "done" /\ rq'[r].sends = 1
              /\ rq'[r].status = 404
              /\ rq'[r].body = Json("error", "Product not found")
              /\ products' = products ]_vars

\* ADMIT: protect called next() once and wrote no response (a response the
\* request has was written after the router took the request)
Admit(q) ==
    /\ q.nexts = 1 /\ q.hasUser
    /\ q.sends <= 1
    /\ q.sends = 1 => (q.pc = "done" /\ q.route # "")
    /\ q.sends = 0 => q.pc \in {"router", "handler"}

\* REJECT: protect wrote 401 "Not authorized" once and never called next()
Reject(q) ==
    /\ q.nexts = 0 /\ ~q.hasUser
    /\ q.pc = "done" /\ q.sends = 1
    /\ q.status = 401 /\ q.body = Text("Not authorized")
    /\ q.route = "" /\ q.stages = <<"protect">>

\* the continuation of an admitted request failed: a validator refused the
\* body, the table threw, or no row or route was found
DownstreamFailed(q) == q.kind = "api" /\ q.route # "" /\ q.status >= 400

\* C16: every request under /api has exactly one outcome of protect, ADMIT
\* or REJECT, never both and never neither; a continuation that fails
\* leaves the outcome ADMIT and adds no response of the guard.
C16_GuardOneOutcome ==
    \A r \in Reqs :
        rq[r].kind = "api" =>
            /\ Admit(rq[r]) \/ Reject(rq[r])
            /\ ~(Admit(rq[r]) /\ Reject(rq[r]))
            /\ DownstreamFailed(rq[r]) => (Admit(rq[r]) /\ rq[r].sends = 1)

\* an admitted request whose handler's table threw, beside a request
\* rejected for a token that does not verify
C16_Witness ==
    \E r1, r2 \in Reqs :
        /\ rq[r1].kind = "api" /\ rq[r1].nexts = 1
        /\ rq[r1].status = 500 /\ rq[r1].stages = <<"protect", "getProduct">>
        /\ rq[r2].kind = "api" /\ rq[r2].why = "jwt malformed"

\* what protect decided for a request: next() or not, req.user, the branch
GuardOutcome(q) ==
    [nexts |-> q.nexts, hasUser |-> q.hasUser, reqUser |-> q.reqUser,
     why |-> q.why, verifies |-> q.verifies]

\* the token of the header was signed by this server and has expired
ExpiredBetween(q1, q2) ==
    /\ "jwt expired" \in {q1.why, q2.why}
    /\ \E i \in 1 .. Len(q1.header.chars) :
          /\ q1.header.chars[i].ch = "tok"
          /\ q1.header.chars[i].tok.key = secret
          /\ now >= q1.header.chars[i].tok.payload.exp

\* two requests with the same Authorization header got the same outcome of
\* the guard, unless the token expired between them
SameHeaderSameOutcome ==
    \A r1, r2 \in Reqs :
        (rq[r1].kind = "api" /\ rq[r2].kind = "api"
         /\ rq[r1].header = rq[r2].header) =>
            \/ GuardOutcome(rq[r1]) = GuardOutcome(rq[r2])
            \/ ExpiredBetween(rq[r1], rq[r2])

\* C17: the guard's outcome is a function of the request's header, the
\* secret and the clock: a request that arrives changes nothing but its
\* own slot, and requests with the same header get the same outcome (the
\* same token twice before its expiry: admitted twice, with the same
\* claims), whatever signups and other requests are in progress.
C17_GuardIsStateless ==
    [][ /\ \A r \in Reqs :
              Arriving(r) =>
                  /\ UNCHANGED <<secret, now, users, products, held, signedUp>>
                  /\ \A r2 \in Reqs \ {r} : rq'[r2] = rq[r2]
        /\ SameHeaderSameOutcome' ]_vars

\* one token admitted twice with the same claims, the first request already
\* answered by its handler, and a second user signed up
C17_Witness ==
    \E r1, r2 \in Reqs :
        /\ r1 # r2
        /\ GuardAdmitted(rq[r1]) /\ GuardAdmitted(rq[r2])
        /\ IsBearerToken(rq[r1].header) /\ rq[r1].header = rq[r2].header
        /\ rq[r1].reqUser = rq[r2].reqUser
        /\ rq[r1].pc = "done" /\ rq[r2].pc = "router"
        /\ Cardinality(users) = 2

\* no two rows, no two answered signups and no two signups in progress that
\* were answered 201 have one username
OnePerUsername ==
    /\ \A u1, u2 \in users : u1.username = u2.username => u1 = u2
    /\ \A s1, s2 \in signedUp : s1[1] = s2[1] => s1 = s2
    /\ \A r1, r2 \in Reqs :
          ( /\ r1 # r2
            /\ rq[r1].kind = "signup" /\ rq[r2].kind = "signup"
            /\ rq[r1].username = rq[r2].username ) =>
              ~(rq[r1].status = 201 /\ rq[r2].status = 201)

\* createNewUser of request r answers in this step
SignupAnswers(r) ==
    rq[r].kind = "signup" /\ rq[r].pc = "created" /\ rq'[r].pc = "done"

\* C18: in every state the user table holds at most one row per username;
\* of the signups of one username, concurrent or in succession, at most
\* one is answered 201 with a token and every other one that is answered
\* gets 400 {error: "Invalid input"}.
C18_UsernamesStayUnique ==
    [][ /\ OnePerUsername'
        /\ \A r \in Reqs :
              SignupAnswers(r) =>
                  IF rq'[r].status = 201
                  THEN /\ rq'[r].body.kind = "token"
                       /\ \A s \in signedUp : s[1] # rq[r].username
                  ELSE /\ rq'[r].status = 400
                       /\ rq'[r].body = Json("error", "Invalid input") ]_vars

\* two signups of one username in progress at once: one has inserted its
\* row and is not answered yet, the other was refused and answered 400
C18_Witness ==
    \E r1, r2 \in Reqs :
        /\ rq[r1].kind = "signup" /\ rq[r2].kind = "signup"
        /\ rq[r1].username = rq[r2].username
        /\ rq[r1].pc = "created" /\ rq[r1].user \in users
        /\ rq[r2].pc = "done" /\ rq[r2].status = 400
        /\ rq[r2].why = "unique constraint"
        /\ secret # NoSecret

====
